---- MODULE Spec2Model ----
(***************************************************************************)
(* The request pipeline of src/app.js: session middleware, passport,       *)
(* connect-flash, the locals ("global variables") middleware, the mounted  *)
(* route groups, the landing and dashboard routes, the authorization gate, *)
(* the 404 catch-all and the terminal error handler.                       *)
(*                                                                         *)
(* One session token is modelled.  Each request slot walks the middleware  *)
(* stack in registration order; the session store is the only state the    *)
(* slots share.  A request works on its own copy of the session, loaded by *)
(* the session middleware and written back when the response ends if the   *)
(* copy was modified (resave: false, saveUninitialized: false).            *)
(***************************************************************************)
EXTENDS Naturals, Sequences, FiniteSets

VARIABLES
    store,      \* the session record held by the session store for the token
    seq,        \* TRUE when the client issues one request at a time
    pc,         \* per slot: the middleware the request is about to enter
    req,        \* per slot: method, path, req.user, and bookkeeping
    sess,       \* per slot: req.session, the request's copy of the session
    loaded,     \* per slot: the session as loaded (the middleware's original hash)
    locals,     \* per slot: res.locals
    resp,       \* per slot: the response sent
    nresp,      \* per slot: how many responses were sent
    trace,      \* per slot: the handlers that ran, in order
    threw,      \* per slot: the dashboard handler's try block raised
    seenBy,     \* history: <<message id, request serial>> for every message put in a view context
    nextMsg,    \* the id the next queued message gets
    nreq        \* requests issued so far

vars == <<store, seq, pc, req, sess, loaded, locals, resp, nresp, trace, threw,
          seenBy, nextMsg, nreq>>

----------------------------------------------------------------------------
(* Bounds *)

\* Requests the client sends in one run.
MaxRequests == 3

\* Two requests of the session can be in flight at once (two tabs).
Slots == {1, 2}

----------------------------------------------------------------------------
(* Data *)

Cats == {"success_msg", "error_msg", "error"}

LoginRequiredText == "Please log in to access this resource"
DashboardErrorText == "An error occurred while loading the dashboard"
GroupText == "route group message"

NoFlash == [c \in Cats |-> <<>>]

\* A session nobody saved yet: what the session middleware generates when the
\* token is absent, unknown to the store or expired.
EmptySession == [saved |-> FALSE, user |-> "none", hasFlash |-> FALSE, flash |-> NoFlash]

\* Paths are sequences of segments: <<>> is "/", <<"users", "1">> is "/users/1".
Root == <<>>
DashboardPath == <<"dashboard">>
LoginPath == <<"login">>

\* The requests the client sends: <<method, path>>.
Requests ==
    {<<"GET", Root>>, <<"GET", DashboardPath>>, <<"GET", LoginPath>>,
     <<"GET", <<"users", "1">> >>, <<"GET", <<"nope">> >>, <<"POST", DashboardPath>>}

\* The values req.user takes when passport restored no identity.
Falsy == {"undefined", "null"}

NoReq == [method |-> "GET", path |-> Root, user |-> "undefined", serial |-> 0,
          born |-> 0, followed |-> FALSE]
NoLocals == [user |-> "unset", success_msg |-> <<>>, error_msg |-> <<>>, error |-> <<>>]
NoResp == [kind |-> "none", to |-> Root, view |-> "", status |-> 0, ctx |-> {}, by |-> ""]

\* res.redirect(path): status 302 unless given.
Redirect(p, by) ==
    [kind |-> "redirect", to |-> p, view |-> "", status |-> 302, ctx |-> {}, by |-> by]

\* res.status(code).render(view, ctx); ctx is a set of <<field, value>> pairs.
Render(view, status, ctx, by) ==
    [kind |-> "render", to |-> Root, view |-> view, status |-> status, ctx |-> ctx, by |-> by]

Msg(text, id) == [text |-> text, id |-> id]

Ids(q) == {q[i].id : i \in 1..Len(q)}

----------------------------------------------------------------------------
(* connect-flash on req.session *)

\* req.flash(type): the messages queued under type.
FlashRead(s, c) == s.flash[c]

\* Variant: a read that leaves the queue in place.
FlashPeek(s, c) == [s EXCEPT !.hasFlash = TRUE]

\* req.flash(type) also deletes the key (and creates session.flash when missing).
FlashDrain(s, c) == [s EXCEPT !.hasFlash = TRUE, !.flash[c] = <<>>]

\* req.flash(type, msg): push msg under type.
FlashAdd(s, c, m) == [s EXCEPT !.hasFlash = TRUE, !.flash[c] = Append(@, m)]

\* req.isAuthenticated(): the truthiness of req.user.
IsAuthenticated(r) == req[r].user \notin Falsy

----------------------------------------------------------------------------
(* Session middleware *)

\* What the store holds after the response ended: the request's copy if it was
\* modified since it was loaded, otherwise what it held.
StoreAfterEnd(r, s) == IF s # loaded[r] THEN [s EXCEPT !.saved = TRUE] ELSE store

Init ==
    /\ store \in {EmptySession,
                  [EmptySession EXCEPT !.saved = TRUE],
                  [EmptySession EXCEPT !.saved = TRUE, !.user = "u1"]}
    /\ seq \in BOOLEAN
    /\ pc = [r \in Slots |-> "idle"]
    /\ req = [r \in Slots |-> NoReq]
    /\ sess = [r \in Slots |-> EmptySession]
    /\ loaded = [r \in Slots |-> EmptySession]
    /\ locals = [r \in Slots |-> NoLocals]
    /\ resp = [r \in Slots |-> NoResp]
    /\ nresp = [r \in Slots |-> 0]
    /\ trace = [r \in Slots |-> <<>>]
    /\ threw = [r \in Slots |-> FALSE]
    /\ seenBy = {}
    /\ nextMsg = 1
    /\ nreq = 0

\* The client sends a request.  The lowest idle slot takes it.
Begin(r) ==
    /\ pc[r] = "idle"
    /\ \A r2 \in Slots : r2 < r => pc[r2] # "idle"
    /\ seq => \A r2 \in Slots : pc[r2] = "idle"
    /\ nreq < MaxRequests
    /\ \E q \in Requests :
          req' = [req EXCEPT ![r] = [NoReq EXCEPT !.method = q[1], !.path = q[2],
                                                  !.serial = nreq + 1, !.born = nextMsg]]
    /\ nreq' = nreq + 1
    /\ pc' = [pc EXCEPT ![r] = "session"]
    /\ UNCHANGED <<store, seq, sess, loaded, locals, resp, nresp, trace, threw, seenBy, nextMsg>>

\* app.use(session({...})): req.session is the store's record for the token.
SessionMw(r) ==
    /\ pc[r] = "session"
    /\ sess' = [sess EXCEPT ![r] = store]
    /\ loaded' = [loaded EXCEPT ![r] = store]
    /\ pc' = [pc EXCEPT ![r] = "passport"]
    /\ UNCHANGED <<store, seq, req, locals, resp, nresp, trace, threw, seenBy, nextMsg, nreq>>

\* passport.initialize() and passport.session(): req.user from the session.
PassportMw(r) ==
    /\ pc[r] = "passport"
    /\ \E u \in (IF sess[r].user = "none" THEN Falsy ELSE {sess[r].user}) :
          req' = [req EXCEPT ![r].user = u]
    /\ pc' = [pc EXCEPT ![r] = "locals"]
    /\ UNCHANGED <<store, seq, sess, loaded, locals, resp, nresp, trace, threw, seenBy, nextMsg, nreq>>

\* The response ends: it is recorded, and the session middleware's res.end hook
\* writes the request's session copy s back if it was modified.
Finish(r, s, response) ==
    /\ sess' = [sess EXCEPT ![r] = s]
    /\ resp' = [resp EXCEPT ![r] = response]
    /\ nresp' = [nresp EXCEPT ![r] = @ + 1]
    /\ trace' = [trace EXCEPT ![r] = Append(@, response.by)]
    /\ store' = StoreAfterEnd(r, s)
    /\ pc' = [pc EXCEPT ![r] = "done"]

----------------------------------------------------------------------------
(* Global variables middleware *)

\* Variant: req.user without the fallback.
LocalsUserRaw(u) == u

\* req.user || null
LocalsUser(u) == IF u \in Falsy THEN "null" ELSE u

\* The session copy after the three req.flash(type) reads.
DrainAll(s) == FlashDrain(FlashDrain(FlashDrain(s, "success_msg"), "error_msg"), "error")

LocalsOf(r) ==
    [user |-> LocalsUser(req[r].user),
     success_msg |-> FlashRead(sess[r], "success_msg"),
     error_msg |-> FlashRead(sess[r], "error_msg"),
     error |-> FlashRead(sess[r], "error")]

\* The ids of the messages in a view context.
LocalsIds(l) == Ids(l.success_msg) \cup Ids(l.error_msg) \cup Ids(l.error)

LocalsMw(r) ==
    /\ pc[r] = "locals"
    /\ locals' = [locals EXCEPT ![r] = LocalsOf(r)]
    /\ sess' = [sess EXCEPT ![r] = DrainAll(@)]
    /\ seenBy' = seenBy \cup {<<id, req[r].serial>> : id \in LocalsIds(LocalsOf(r))}
    /\ pc' = [pc EXCEPT ![r] = "groups"]
    /\ UNCHANGED <<store, seq, req, loaded, resp, nresp, trace, threw, nextMsg, nreq>>

----------------------------------------------------------------------------
(* Mounted route groups: authRoutes at "/", userRoutes, escrowRoutes and     *)
(* paymentRoutes at their prefixes.  Their files are not part of the source *)
(* at hand; a group either answers, passes the request on, or fails.        *)

InGroupPrefix(p) == Len(p) > 0 /\ Head(p) \in {"users", "escrow", "payments"}

IsLoginPage(r) == req[r].method = "GET" /\ req[r].path = LoginPath

\* The auth group's login page.
GroupLogin(r) ==
    /\ pc[r] = "groups"
    /\ IsLoginPage(r)
    /\ Finish(r, sess[r], Render("auth/login", 200, {<<"title", "Login">>}, "group"))
    /\ UNCHANGED <<seq, req, loaded, locals, threw, seenBy, nextMsg, nreq>>

\* A prefixed group answers: it queues a message and redirects home.
GroupRespond(r) ==
    /\ pc[r] = "groups"
    /\ InGroupPrefix(req[r].path)
    /\ \E c \in Cats :
          Finish(r, FlashAdd(sess[r], c, Msg(GroupText, nextMsg)), Redirect(Root, "group"))
    /\ nextMsg' = nextMsg + 1
    /\ UNCHANGED <<seq, req, loaded, locals, threw, seenBy, nreq>>

\* A prefixed group fails: next(err).
GroupFail(r) ==
    /\ pc[r] = "groups"
    /\ InGroupPrefix(req[r].path)
    /\ trace' = [trace EXCEPT ![r] = Append(@, "groupFail")]
    /\ pc' = [pc EXCEPT ![r] = "error"]
    /\ UNCHANGED <<store, seq, req, sess, loaded, locals, resp, nresp, threw, seenBy, nextMsg, nreq>>

\* No group route matches: next().
GroupPass(r) ==
    /\ pc[r] = "groups"
    /\ ~IsLoginPage(r)
    /\ pc' = [pc EXCEPT ![r] = "core"]
    /\ UNCHANGED <<store, seq, req, sess, loaded, locals, resp, nresp, trace, threw, seenBy, nextMsg, nreq>>

----------------------------------------------------------------------------
(* Routes of app.js *)

IsLanding(r) == req[r].method = "GET" /\ req[r].path = Root
IsDashboard(r) == req[r].method = "GET" /\ req[r].path = DashboardPath

LoginViewCtx ==
    {<<"title", "Secure B2B Escrow Platform">>,
     <<"description", "A secure platform for B2B transactions with escrow protection">>}

\* Variant: the landing page rendered whatever the identity.
LandingNoRedirect(r) ==
    /\ pc[r] = "core"
    /\ IsLanding(r)
    /\ Finish(r, sess[r], Render("auth/login", 200, LoginViewCtx, "landing"))
    /\ UNCHANGED <<seq, req, loaded, locals, threw, seenBy, nextMsg, nreq>>

\* app.get('/')
Landing(r) ==
    /\ pc[r] = "core"
    /\ IsLanding(r)
    /\ IF IsAuthenticated(r)
       THEN Finish(r, sess[r], Redirect(DashboardPath, "landing"))
       ELSE Finish(r, sess[r], Render("auth/login", 200, LoginViewCtx, "landing"))
    /\ UNCHANGED <<seq, req, loaded, locals, threw, seenBy, nextMsg, nreq>>

\* Variant: the required-login message queued under 'error'.
GateWrongCategory(r) ==
    /\ pc[r] = "core"
    /\ IsDashboard(r)
    /\ IF IsAuthenticated(r)
       THEN /\ pc' = [pc EXCEPT ![r] = "dashboard"]
            /\ trace' = [trace EXCEPT ![r] = Append(@, "gate")]
            /\ UNCHANGED <<store, sess, resp, nresp, nextMsg>>
       ELSE /\ Finish(r, FlashAdd(sess[r], "error", Msg(LoginRequiredText, nextMsg)),
                      Redirect(LoginPath, "gate"))
            /\ nextMsg' = nextMsg + 1
    /\ UNCHANGED <<seq, req, loaded, locals, threw, seenBy, nreq>>

\* Variant: the message queued before the test, on both branches.
GateAlwaysFlash(r) ==
    /\ pc[r] = "core"
    /\ IsDashboard(r)
    /\ IF IsAuthenticated(r)
       THEN /\ pc' = [pc EXCEPT ![r] = "dashboard"]
            /\ trace' = [trace EXCEPT ![r] = Append(@, "gate")]
            /\ sess' = [sess EXCEPT ![r] =
                           FlashAdd(@, "error_msg", Msg(LoginRequiredText, nextMsg))]
            /\ UNCHANGED <<store, resp, nresp>>
       ELSE Finish(r, FlashAdd(sess[r], "error_msg", Msg(LoginRequiredText, nextMsg)),
                   Redirect(LoginPath, "gate"))
    /\ nextMsg' = nextMsg + 1
    /\ UNCHANGED <<seq, req, loaded, locals, threw, seenBy, nreq>>

\* ensureAuthenticated, the first handler of app.get('/dashboard')
Gate(r) ==
    /\ pc[r] = "core"
    /\ IsDashboard(r)
    /\ IF IsAuthenticated(r)
       THEN /\ pc' = [pc EXCEPT ![r] = "dashboard"]
            /\ trace' = [trace EXCEPT ![r] = Append(@, "gate")]
            /\ UNCHANGED <<store, sess, resp, nresp, nextMsg>>
       ELSE /\ Finish(r, FlashAdd(sess[r], "error_msg", Msg(LoginRequiredText, nextMsg)),
                      Redirect(LoginPath, "gate"))
            /\ nextMsg' = nextMsg + 1
    /\ UNCHANGED <<seq, req, loaded, locals, threw, seenBy, nreq>>

\* The try block of the dashboard handler completed.
DashboardRender(r) ==
    /\ Finish(r, sess[r],
              Render("dashboard", 200, {<<"title", "Dashboard">>, <<"user", req[r].user>>},
                     "dashboard"))
    /\ UNCHANGED <<threw, nextMsg>>

\* Variant: a catch block that redirects without queueing the message.
DashboardCatchSilent(r) ==
    /\ threw' = [threw EXCEPT ![r] = TRUE]
    /\ Finish(r, sess[r], Redirect(Root, "dashboard"))
    /\ UNCHANGED nextMsg

\* The try block raised: the catch block.
DashboardCatch(r) ==
    /\ threw' = [threw EXCEPT ![r] = TRUE]
    /\ Finish(r, FlashAdd(sess[r], "error_msg", Msg(DashboardErrorText, nextMsg)),
              Redirect(Root, "dashboard"))
    /\ nextMsg' = nextMsg + 1

\* Variant: the failure is answered with the redirect and passed on as well.
DashboardForwards(r) ==
    /\ pc[r] = "dashboard"
    /\ \/ DashboardRender(r)
       \/ /\ threw' = [threw EXCEPT ![r] = TRUE]
          /\ sess' = [sess EXCEPT ![r] =
                         FlashAdd(@, "error_msg", Msg(DashboardErrorText, nextMsg))]
          /\ resp' = [resp EXCEPT ![r] = Redirect(Root, "dashboard")]
          /\ nresp' = [nresp EXCEPT ![r] = @ + 1]
          /\ trace' = [trace EXCEPT ![r] = Append(@, "dashboard")]
          /\ store' = StoreAfterEnd(r, sess'[r])
          /\ pc' = [pc EXCEPT ![r] = "error"]
          /\ nextMsg' = nextMsg + 1
    /\ UNCHANGED <<seq, req, loaded, locals, seenBy, nreq>>

\* The second handler of app.get('/dashboard')
Dashboard(r) ==
    /\ pc[r] = "dashboard"
    /\ \/ DashboardRender(r)
       \/ DashboardCatch(r)
    /\ UNCHANGED <<seq, req, loaded, locals, seenBy, nreq>>

NotFoundCtx ==
    {<<"title", "Page Not Found">>,
     <<"message", "The page you requested does not exist">>,
     <<"statusCode", "404">>}

\* Variant: the error view rendered without res.status(404).
NotFoundNoStatus(r) ==
    /\ pc[r] = "core"
    /\ ~IsLanding(r)
    /\ ~IsDashboard(r)
    /\ Finish(r, sess[r], Render("error", 200, NotFoundCtx, "notFound"))
    /\ UNCHANGED <<seq, req, loaded, locals, threw, seenBy, nextMsg, nreq>>

\* The catch-all after the routes.
NotFound(r) ==
    /\ pc[r] = "core"
    /\ ~IsLanding(r)
    /\ ~IsDashboard(r)
    /\ Finish(r, sess[r], Render("error", 404, NotFoundCtx, "notFound"))
    /\ UNCHANGED <<seq, req, loaded, locals, threw, seenBy, nextMsg, nreq>>

\* app.use(errorHandler): answers a request whose handler failed.
ErrorHandler(r) ==
    /\ pc[r] = "error"
    /\ Finish(r, sess[r], Render("error", 500, {<<"title", "Error">>}, "errorHandler"))
    /\ UNCHANGED <<seq, req, loaded, locals, threw, seenBy, nextMsg, nreq>>

----------------------------------------------------------------------------
(* The client *)

ResetSlot(r) ==
    /\ sess' = [sess EXCEPT ![r] = EmptySession]
    /\ loaded' = [loaded EXCEPT ![r] = EmptySession]
    /\ locals' = [locals EXCEPT ![r] = NoLocals]
    /\ resp' = [resp EXCEPT ![r] = NoResp]
    /\ nresp' = [nresp EXCEPT ![r] = 0]
    /\ trace' = [trace EXCEPT ![r] = <<>>]
    /\ threw' = [threw EXCEPT ![r] = FALSE]

\* The client has the response and sends nothing in reply.
Receive(r) ==
    /\ pc[r] = "done"
    /\ pc' = [pc EXCEPT ![r] = "idle"]
    /\ req' = [req EXCEPT ![r] = NoReq]
    /\ ResetSlot(r)
    /\ UNCHANGED <<store, seq, seenBy, nextMsg, nreq>>

\* The client follows the redirect it was given.
Follow(r) ==
    /\ pc[r] = "done"
    /\ resp[r].kind = "redirect"
    /\ nreq < MaxRequests
    /\ pc' = [pc EXCEPT ![r] = "session"]
    /\ req' = [req EXCEPT ![r] = [NoReq EXCEPT !.path = resp[r].to, !.serial = nreq + 1,
                                               !.born = nextMsg, !.followed = TRUE]]
    /\ nreq' = nreq + 1
    /\ ResetSlot(r)
    /\ UNCHANGED <<store, seq, seenBy, nextMsg>>

----------------------------------------------------------------------------

Next ==
    \/ \E r \in Slots : Begin(r)
    \/ \E r \in Slots : SessionMw(r)
    \/ \E r \in Slots : PassportMw(r)
    \/ \E r \in Slots : LocalsMw(r)
    \/ \E r \in Slots : GroupLogin(r)
    \/ \E r \in Slots : GroupRespond(r)
    \/ \E r \in Slots : GroupFail(r)
    \/ \E r \in Slots : GroupPass(r)
    \/ \E r \in Slots : Landing(r)
    \/ \E r \in Slots : Gate(r)
    \/ \E r \in Slots : Dashboard(r)
    \/ \E r \in Slots : NotFound(r)
    \/ \E r \in Slots : ErrorHandler(r)
    \/ \E r \in Slots : Receive(r)
    \/ \E r \in Slots : Follow(r)

\* Requests of the session may overlap.
Spec == Init /\ [][Next]_vars

\* The client sends a request only after the previous response arrived.
InitSeq == Init /\ seq

SpecSeq == InitSeq /\ [][Next]_vars

----------------------------------------------------------------------------
(* Helpers of the properties *)

Range(q) == {q[i] : i \in 1..Len(q)}

\* q2 is q1 with one message of the given text appended.
Added(q1, q2, text) ==
    /\ Len(q2) = Len(q1) + 1
    /\ SubSeq(q2, 1, Len(q1)) = q1
    /\ q2[Len(q2)].text = text

\* The request left the routes of app.js stage in this step.
LeavesCore(r) == pc[r] = "core" /\ pc'[r] # "core"

\* The locals middleware has run for the request.
PastLocals(r) == pc[r] \in {"groups", "core", "dashboard", "error", "done"}

\* Neither a route of app.js nor a route of a mounted group took the request.
NoRouteMatched(r) ==
    /\ ~IsLanding(r)
    /\ ~IsDashboard(r)
    /\ ~IsLoginPage(r)
    /\ "group" \notin Range(trace[r])
    /\ "groupFail" \notin Range(trace[r])

\* Some middleware or handler can take the request further.
StepOf(r) ==
    \/ SessionMw(r) \/ PassportMw(r) \/ LocalsMw(r)
    \/ GroupLogin(r) \/ GroupRespond(r) \/ GroupFail(r) \/ GroupPass(r)
    \/ Landing(r) \/ Gate(r) \/ Dashboard(r) \/ NotFound(r) \/ ErrorHandler(r)

\* The texts queued by the gate and by the dashboard's failure path.
CoreTexts == {LoginRequiredText, DashboardErrorText}

LocalsMsgs(l) == Range(l.success_msg) \cup Range(l.error_msg) \cup Range(l.error)

----------------------------------------------------------------------------
(* Properties *)

\* C1: a GET /dashboard request without an authenticated identity is answered
\* by the gate with a redirect to /login, the dashboard handler does not run,
\* and the gate step appends exactly one message, the required-login text, to
\* error_msg of the request's session and writes no other category.
GateDeniesAnonymous ==
    [][\A r \in Slots :
          (LeavesCore(r) /\ IsDashboard(r) /\ ~IsAuthenticated(r)) =>
             /\ pc'[r] = "done"
             /\ resp'[r].kind = "redirect"
             /\ resp'[r].to = LoginPath
             /\ nresp'[r] = 1
             /\ "dashboard" \notin Range(trace'[r])
             /\ Added(sess[r].flash["error_msg"], sess'[r].flash["error_msg"],
                      LoginRequiredText)
             /\ sess'[r].flash["success_msg"] = sess[r].flash["success_msg"]
             /\ sess'[r].flash["error"] = sess[r].flash["error"]]_vars

GateDeniedReached ==
    \E r \in Slots :
        /\ pc[r] = "done"
        /\ IsDashboard(r)
        /\ ~IsAuthenticated(r)
        /\ resp[r].by = "gate"
        /\ Len(sess[r].flash["error_msg"]) = 1

\* C2: for a GET /dashboard request with an authenticated identity the gate
\* step hands over to the dashboard handler, sends no response, and leaves the
\* session's identity and its three queues as they were, in the request's
\* session and in the store.
GatePassesAuthenticated ==
    [][\A r \in Slots :
          (LeavesCore(r) /\ IsDashboard(r) /\ IsAuthenticated(r)) =>
             /\ pc'[r] = "dashboard"
             /\ resp'[r] = NoResp
             /\ nresp'[r] = 0
             /\ sess'[r].user = sess[r].user
             /\ sess'[r].flash = sess[r].flash
             /\ store' = store]_vars

GatePassedReached ==
    \E r \in Slots :
        /\ pc[r] = "dashboard"
        /\ IsAuthenticated(r)
        /\ trace[r] = <<"gate">>

\* C3: with one request of the session at a time, every category is empty in
\* the request's session once the locals middleware has read it, no message is
\* put in the view context of two requests, and between requests the store
\* holds only messages no view context has held.
DrainExactlyOnce ==
    /\ \A r \in Slots : pc[r] = "groups" => sess[r].flash = NoFlash
    /\ \A p1, p2 \in seenBy : p1[1] = p2[1] => p1[2] = p2[2]
    /\ (\A r \in Slots : pc[r] \in {"idle", "done", "session"}) =>
          \A c \in Cats : \A id \in Ids(store.flash[c]) : \A p \in seenBy : p[1] # id

LaterRequestSeesNothing ==
    \E r \in Slots, p \in seenBy :
        /\ seq
        /\ req[r].serial > p[2]
        /\ pc[r] = "groups"
        /\ LocalsMsgs(locals[r]) = {}

LandingRoutesByIdentity ==
    \A r \in Slots :
        (pc[r] = "done" /\ IsLanding(r)) =>
            IF IsAuthenticated(r)
            THEN /\ resp[r].kind = "redirect"
                 /\ resp[r].to = DashboardPath
                 /\ resp[r].view = ""
            ELSE /\ resp[r].kind = "render"
                 /\ resp[r].view = "auth/login"
                 /\ resp[r].ctx = LoginViewCtx
                 /\ {f[1] : f \in resp[r].ctx} = {"title", "description"}

LandingRedirectReached ==
    \E r \in Slots :
        /\ pc[r] = "done"
        /\ IsLanding(r)
        /\ IsAuthenticated(r)
        /\ resp[r].kind = "redirect"

\* C6: a request that no route takes is answered by the catch-all with status
\* 404 and the 'error' view carrying the fixed message, whatever its path and
\* whether or not it is authenticated.
UnmatchedGets404 ==
    \A r \in Slots :
        (pc[r] = "done" /\ NoRouteMatched(r)) =>
            /\ resp[r].kind = "render"
            /\ resp[r].status = 404
            /\ resp[r].view = "error"
            /\ <<"message", "The page you requested does not exist">> \in resp[r].ctx
            /\ nresp[r] = 1

UnmatchedReached ==
    \E r \in Slots :
        /\ pc[r] = "done"
        /\ req[r].method = "POST"
        /\ IsAuthenticated(r)
        /\ resp[r].status = 404

\* C7: once the locals middleware has run for a request without an
\* authenticated identity, res.locals.user is null; on a first visit, with no
\* session in the store, the three message lists are empty as well.
AnonymousUserIsNull ==
    \A r \in Slots :
        /\ (PastLocals(r) /\ ~IsAuthenticated(r)) => locals[r].user = "null"
        /\ (PastLocals(r) /\ ~loaded[r].saved) =>
              /\ locals[r].user = "null"
              /\ locals[r].success_msg = <<>>
              /\ locals[r].error_msg = <<>>
              /\ locals[r].error = <<>>

FirstVisitReached ==
    \E r \in Slots :
        /\ pc[r] = "groups"
        /\ req[r].user = "undefined"
        /\ ~loaded[r].saved
        /\ locals[r].user = "null"

AtMostOneObserver ==
    \A r1, r2 \in Slots :
        r1 # r2 =>
            \A m \in LocalsMsgs(locals[r1]) \cap LocalsMsgs(locals[r2]) :
                ~(m.text \in CoreTexts /\ m.id < req[r1].born /\ m.id < req[r2].born)

\* C10: a message queued by the gate or by the dashboard's failure path is
\* not drained by a request that the client sends to follow a redirect and
\* that ends in a redirect itself, without rendering a view.
QueuedNoticeDisplayed ==
    \A r \in Slots :
        (pc[r] = "done" /\ req[r].followed /\ resp[r].kind = "redirect") =>
            \A m \in LocalsMsgs(locals[r]) : m.text \notin CoreTexts

====
